---------------------------- MODULE Spec2Model ----------------------------
(***************************************************************************)
(* pnger: SVG to PNG conversion (src/src/utils.ts, src/src/converter.ts).  *)
(*                                                                         *)
(* JavaScript numbers are modelled as exact rationals n/d together with    *)
(* the special values NaN, +Infinity, -Infinity and undefined; zero is     *)
(* unsigned.  Strings that the code inspects with a regular expression are *)
(* sequences of one-character strings, matched by a small regular          *)
(* expression matcher.                                                     *)
(***************************************************************************)
EXTENDS Integers, Sequences, FiniteSets, TLC

VARIABLES
    arg,        \* input of the pure function under check
    ret,        \* <<>> before the call, <<result>> after it
    pc,         \* position of the conversion in flight
    caller,     \* "convert" (a method call) or "convertSVGtoPNG"
    req,        \* the ConversionOptions of the call in flight
    env,        \* the input file as the file system presents it
    browser,    \* SVGConverter.browser: 0 (undefined) or a browser instance
    connected,  \* this.browser.connected
    launched,   \* number of browser instances this converter has launched
    closeAsked, \* the browser instances that were asked to close
    page,       \* TRUE while a page opened by the call in flight is open
    loc,        \* locals of convert: intrinsic, final, background, pending error
    written,    \* TRUE once writeFile has completed in the call in flight
    outcome,    \* <<>> or <<what the entry point returned or threw>>
    calls,      \* number of entry-point calls made on this converter
    log,        \* the calls the conversion in flight has made, with their replies
    prev        \* <<>> or <<the completed conversion a second one is compared with>>

pureVars == <<arg, ret>>
convVars == <<pc, caller, req, env, browser, connected, launched, closeAsked,
              page, loc, written, outcome, calls, log, prev>>
vars == <<arg, ret, pc, caller, req, env, browser, connected, launched,
          closeAsked, page, loc, written, outcome, calls, log, prev>>

---------------------------------------------------------------------------
(* Bounds of the model *)

MaxNum == 4          \* numerators of the sampled numbers
MaxDen == 2          \* denominators of the sampled numbers
MaxScaleNum == 3     \* numerators of the sampled scale factors (over 1..2)
MaxBgLen == 3        \* length of the exhaustively sampled background strings
MaxRun == 9          \* length of the runs in the shaped background strings
MaxCalls == 2        \* calls made on one converter
MaxAttrs == 3        \* attributes in the sampled SVG texts

---------------------------------------------------------------------------
(* JavaScript numbers *)

Abs(x) == IF x < 0 THEN -x ELSE x

Sgn(x) == IF x < 0 THEN -1 ELSE IF x = 0 THEN 0 ELSE 1

RECURSIVE GCD(_, _)
GCD(a, b) == IF b = 0 THEN a ELSE GCD(b, a % b)

\* the rational n/d (d # 0) in lowest terms with a positive denominator
Num(n, d) ==
    LET s == IF d < 0 THEN -1 ELSE 1
        g == GCD(Abs(n), Abs(d))
    IN  [k |-> "num", n |-> (s * n) \div g, d |-> (s * d) \div g]

NaN == [k |-> "nan", n |-> 0, d |-> 1]

Infinity(s) == [k |-> "inf", n |-> s, d |-> 1]

Undefined == [k |-> "undef", n |-> 0, d |-> 1]

\* ToNumber(undefined) is NaN
IsNaN(x) == x.k \in {"nan", "undef"}

IsZero(x) == x.k = "num" /\ x.n = 0

\* sign of a number that is not NaN; an unsigned zero counts as +0 in a divisor
SignOf(x) == Sgn(x.n)

\* Number.isFinite
IsFinite(x) == x.k = "num"

\* x * y
Mul(x, y) ==
    IF IsNaN(x) \/ IsNaN(y) THEN NaN
    ELSE IF x.k = "inf" \/ y.k = "inf"
         THEN IF IsZero(x) \/ IsZero(y) THEN NaN
              ELSE Infinity(SignOf(x) * SignOf(y))
    ELSE Num(x.n * y.n, x.d * y.d)

\* x / y
Div(x, y) ==
    IF IsNaN(x) \/ IsNaN(y) THEN NaN
    ELSE IF x.k = "inf"
         THEN IF y.k = "inf" THEN NaN
              ELSE Infinity(SignOf(x) * (IF IsZero(y) THEN 1 ELSE SignOf(y)))
    ELSE IF y.k = "inf" THEN Num(0, 1)
    ELSE IF IsZero(y)
         THEN IF IsZero(x) THEN NaN ELSE Infinity(SignOf(x))
    ELSE Num(x.n * y.d, x.d * y.n)

\* x - y
Sub(x, y) ==
    IF IsNaN(x) \/ IsNaN(y) THEN NaN
    ELSE IF x.k = "inf"
         THEN IF y.k = "inf" /\ y.n = x.n THEN NaN ELSE x
    ELSE IF y.k = "inf" THEN Infinity(-y.n)
    ELSE Num(x.n * y.d - y.n * x.d, x.d * y.d)

\* x < y (false when either is NaN)
Lt(x, y) ==
    IF IsNaN(x) \/ IsNaN(y) THEN FALSE
    ELSE IF x.k = "inf" THEN x.n < 0 /\ ~(y.k = "inf" /\ y.n < 0)
    ELSE IF y.k = "inf" THEN y.n > 0
    ELSE x.n * y.d < y.n * x.d

\* x > y
Gt(x, y) == Lt(y, x)

\* x <= y (false when either is NaN)
Le(x, y) == ~IsNaN(x) /\ ~IsNaN(y) /\ ~Lt(y, x)

\* the truth value of x in a condition: undefined, NaN and 0 are falsy
Truthy(x) == ~IsNaN(x) /\ ~IsZero(x)

\* x || y
OrElse(x, y) == IF Truthy(x) THEN x ELSE y

\* Math.round: the nearest integer, a tie going up
MathRound(x) ==
    IF x.k = "num" THEN Num((2 * x.n + x.d) \div (2 * x.d), 1)
    ELSE IF x.k = "undef" THEN NaN
    ELSE x

Zero == Num(0, 1)

One == Num(1, 1)

Hundred == Num(100, 1)

---------------------------------------------------------------------------
(* utils.ts: calculateDimensions *)

Size(w, h) == [width |-> w, height |-> h]

\* a plausible slip: the box is filled (the larger fit) instead of fitted
fitBoth_Fill(intrinsic, options, scale) ==
    LET targetAspect == Div(options.width, options.height)
        intrinsicAspect == Div(intrinsic.width, intrinsic.height)
        wider == Lt(intrinsicAspect, targetAspect)
        finalWidth == IF wider THEN options.width
                      ELSE Mul(options.height, intrinsicAspect)
        finalHeight == IF wider THEN Div(options.width, intrinsicAspect)
                       ELSE options.height
    IN  Size(MathRound(Mul(finalWidth, scale)),
             MathRound(Mul(finalHeight, scale)))

\* both width and height specified
fitBoth(intrinsic, options, scale) ==
    LET targetAspect == Div(options.width, options.height)
        intrinsicAspect == Div(intrinsic.width, intrinsic.height)
        wider == Gt(intrinsicAspect, targetAspect)
        finalWidth == IF wider THEN options.width
                      ELSE Mul(options.height, intrinsicAspect)
        finalHeight == IF wider THEN Div(options.width, intrinsicAspect)
                       ELSE options.height
    IN  Size(MathRound(Mul(finalWidth, scale)),
             MathRound(Mul(finalHeight, scale)))

\* a plausible slip: the scale is left off the derived axis
widthOnly_ScaleDropped(intrinsic, options, scale) ==
    LET aspectRatio == Div(intrinsic.height, intrinsic.width)
    IN  Size(MathRound(Mul(options.width, scale)),
             MathRound(Mul(options.width, aspectRatio)))

\* only width specified
widthOnly(intrinsic, options, scale) ==
    LET aspectRatio == Div(intrinsic.height, intrinsic.width)
    IN  Size(MathRound(Mul(options.width, scale)),
             MathRound(Mul(Mul(options.width, aspectRatio), scale)))

\* only height specified
heightOnly(intrinsic, options, scale) ==
    LET aspectRatio == Div(intrinsic.width, intrinsic.height)
    IN  Size(MathRound(Mul(Mul(options.height, aspectRatio), scale)),
             MathRound(Mul(options.height, scale)))

\* a plausible slip: the intrinsic size is rounded before it is scaled
intrinsicScaled_RoundFirst(intrinsic, scale) ==
    Size(Mul(MathRound(intrinsic.width), scale),
         Mul(MathRound(intrinsic.height), scale))

\* no dimensions specified
intrinsicScaled(intrinsic, scale) ==
    Size(MathRound(Mul(intrinsic.width, scale)),
         MathRound(Mul(intrinsic.height, scale)))

calculateDimensions(intrinsic, options) ==
    LET scale == OrElse(options.scale, One)
    IN  IF Truthy(options.width) /\ Truthy(options.height)
        THEN fitBoth(intrinsic, options, scale)
        ELSE IF Truthy(options.width)
        THEN widthOnly(intrinsic, options, scale)
        ELSE IF Truthy(options.height)
        THEN heightOnly(intrinsic, options, scale)
        ELSE intrinsicScaled(intrinsic, scale)

---------------------------------------------------------------------------
(* utils.ts: validateOptions *)

Return(v) == [type |-> "return", value |-> v, msg |-> "", field |-> ""]

Throw(m, f) == [type |-> "throw", value |-> 0, msg |-> m, field |-> f]

\* x <= 0 || !Number.isFinite(x)
NotPositiveFinite(x) == Le(x, Zero) \/ ~IsFinite(x)

\* a plausible slip: the comparison is strict, so a zero passes
validateOptions_ZeroPasses(options) ==
    IF options.width # Undefined
       /\ (Lt(options.width, Zero) \/ ~IsFinite(options.width))
    THEN Throw("Invalid width", "width")
    ELSE IF options.height # Undefined
            /\ (Lt(options.height, Zero) \/ ~IsFinite(options.height))
    THEN Throw("Invalid height", "height")
    ELSE IF options.scale # Undefined
            /\ (Lt(options.scale, Zero) \/ ~IsFinite(options.scale))
    THEN Throw("Invalid scale", "scale")
    ELSE IF options.quality # Undefined
            /\ (Lt(options.quality, Zero) \/ Gt(options.quality, Hundred))
    THEN Throw("Invalid quality", "quality")
    ELSE Return(0)

validateOptions(options) ==
    IF options.width # Undefined /\ NotPositiveFinite(options.width)
    THEN Throw("Invalid width", "width")
    ELSE IF options.height # Undefined /\ NotPositiveFinite(options.height)
    THEN Throw("Invalid height", "height")
    ELSE IF options.scale # Undefined /\ NotPositiveFinite(options.scale)
    THEN Throw("Invalid scale", "scale")
    ELSE IF options.quality # Undefined
            /\ (Lt(options.quality, Zero) \/ Gt(options.quality, Hundred))
    THEN Throw("Invalid quality", "quality")
    ELSE Return(0)

---------------------------------------------------------------------------
(* Strings and regular expressions *)

\* an optional string: undefined, or a sequence of characters
NoString == [def |-> FALSE, str |-> <<>>]

Str(s) == [def |-> TRUE, str |-> s]

LowerCase ==
    <<"a", "b", "c", "d", "e", "f", "g", "h", "i", "j", "k", "l", "m",
      "n", "o", "p", "q", "r", "s", "t", "u", "v", "w", "x", "y", "z">>

UpperCase ==
    <<"A", "B", "C", "D", "E", "F", "G", "H", "I", "J", "K", "L", "M",
      "N", "O", "P", "Q", "R", "S", "T", "U", "V", "W", "X", "Y", "Z">>

Range(f) == {f[i] : i \in DOMAIN f}

Digits == {"0", "1", "2", "3", "4", "5", "6", "7", "8", "9"}

\* the characters that equal c when case is ignored (the i flag)
IgnoreCase(c) ==
    {c} \cup {LowerCase[i] : i \in {j \in 1..26 : UpperCase[j] = c}}
        \cup {UpperCase[i] : i \in {j \in 1..26 : LowerCase[j] = c}}

\* regular expressions: a character class, a negated class, a sequence, an
\* alternation, and a greedy repetition {lo,hi} (hi = -1: unbounded)
Class(cs) == [t |-> "class", cs |-> cs, rs |-> <<>>, lo |-> 0, hi |-> 0]

NotClass(cs) == [t |-> "notclass", cs |-> cs, rs |-> <<>>, lo |-> 0, hi |-> 0]

Cat(rs) == [t |-> "cat", cs |-> {}, rs |-> rs, lo |-> 0, hi |-> 0]

Alt(rs) == [t |-> "alt", cs |-> {}, rs |-> rs, lo |-> 0, hi |-> 0]

Rep(r, lo, hi) == [t |-> "rep", cs |-> {}, rs |-> <<r>>, lo |-> lo, hi |-> hi]

\* a literal under the i flag
LitI(str) == Cat([i \in DOMAIN str |-> Class(IgnoreCase(str[i]))])

RECURSIVE Ends(_, _, _)
RECURSIVE EndsCat(_, _, _, _)
RECURSIVE EndsRep(_, _, _, _)

\* the positions j such that r matches s[i..j-1]
Ends(r, s, i) ==
    IF r.t = "class"
    THEN IF i <= Len(s) /\ s[i] \in r.cs THEN {i + 1} ELSE {}
    ELSE IF r.t = "notclass"
    THEN IF i <= Len(s) /\ s[i] \notin r.cs THEN {i + 1} ELSE {}
    ELSE IF r.t = "cat" THEN EndsCat(r.rs, 1, s, {i})
    ELSE IF r.t = "alt" THEN UNION {Ends(r.rs[k], s, i) : k \in DOMAIN r.rs}
    ELSE EndsRep(r, s, {i}, 0)

\* the positions reached from the positions P by rs[k], rs[k+1], ...
EndsCat(rs, k, s, P) ==
    IF k > Len(rs) \/ P = {} THEN P
    ELSE EndsCat(rs, k + 1, s, UNION {Ends(rs[k], s, p) : p \in P})

\* the positions reached from P, itself reached by n repetitions, by lo..hi
\* repetitions in all
EndsRep(r, s, P, n) ==
    LET here == IF n >= r.lo THEN P ELSE {}
    IN  IF P = {} \/ (r.hi >= 0 /\ n >= r.hi) THEN here
        ELSE here \cup
             EndsRep(r, s, UNION {Ends(r.rs[1], s, p) : p \in P}, n + 1)

\* RegExp.test for a pattern anchored as ^...$
TestAnchored(r, s) == (Len(s) + 1) \in Ends(r, s, 1)

---------------------------------------------------------------------------
(* utils.ts: normalizeBackgroundColor *)

TRANSPARENT == <<"t", "r", "a", "n", "s", "p", "a", "r", "e", "n", "t">>

HexDigitsI == Digits \cup UNION {IgnoreCase(c) : c \in {"a", "b", "c", "d", "e", "f"}}

LettersI == Range(LowerCase) \cup Range(UpperCase)

\* a plausible slip: the hex form stops at six digits
validColorPattern_Hex6 ==
    Alt(<<Cat(<<Class({"#"}), Rep(Class(HexDigitsI), 3, 6)>>),
          Cat(<<LitI(<<"r", "g", "b">>), Rep(LitI(<<"a">>), 0, 1), Class({"("}),
                Rep(NotClass({")"}), 1, -1), Class({")"})>>),
          Rep(Class(LettersI), 1, -1)>>)

\* /^(#[0-9a-f]{3,8}|rgba?\([^)]+\)|[a-z]+)$/i
validColorPattern ==
    Alt(<<Cat(<<Class({"#"}), Rep(Class(HexDigitsI), 3, 8)>>),
          Cat(<<LitI(<<"r", "g", "b">>), Rep(LitI(<<"a">>), 0, 1), Class({"("}),
                Rep(NotClass({")"}), 1, -1), Class({")"})>>),
          Rep(Class(LettersI), 1, -1)>>)

\* !background: undefined and the empty string are falsy
FalsyString(b) == ~b.def \/ b.str = <<>>

normalizeBackgroundColor(background) ==
    IF FalsyString(background) \/ background.str = TRANSPARENT
    THEN Return(TRANSPARENT)
    ELSE IF ~TestAnchored(validColorPattern, background.str)
    THEN Throw("Invalid background color", "background")
    ELSE Return(background.str)

---------------------------------------------------------------------------
(* utils.ts: validateInputFile, generateOutputPath, parseSVGDimensions *)

DotSvg == <<".", "s", "v", "g">>

DotPng == <<".", "p", "n", "g">>

\* s.toLowerCase().endsWith(suffix), and /suffix$/i, for a lower-case suffix
EndsWithI(s, suffix) ==
    /\ Len(s) >= Len(suffix)
    /\ \A i \in 1..Len(suffix) :
          s[Len(s) - Len(suffix) + i] \in IgnoreCase(suffix[i])

\* file is the input file as the file system presents it
validateInputFile(filePath, file) ==
    IF ~file.exists THEN Throw("Input file not found", "inputPath")
    ELSE IF ~file.readable THEN Throw("Input file is not readable", "inputPath")
    ELSE IF ~EndsWithI(filePath, DotSvg)
    THEN Throw("Input file must be an SVG file", "inputPath")
    ELSE Return(0)

generateOutputPath(inputPath, outputPath) ==
    IF ~FalsyString(outputPath) THEN outputPath.str
    ELSE IF EndsWithI(inputPath, DotSvg)
    THEN SubSeq(inputPath, 1, Len(inputPath) - Len(DotSvg)) \o DotPng
    ELSE inputPath

\* what \s matches, of the characters of the model
Whitespace == {" ", "\t", "\n"}

Quotes == {"\"", "'"}

\* \d+(?:\.\d+)?
NumberPattern ==
    Cat(<<Rep(Class(Digits), 1, -1),
          Rep(Cat(<<Class({"."}), Rep(Class(Digits), 1, -1)>>), 0, 1)>>)

\* (px|pt|pc|in|cm|mm)?
UnitPattern ==
    Rep(Alt(<<LitI(<<"p", "x">>), LitI(<<"p", "t">>), LitI(<<"p", "c">>),
              LitI(<<"i", "n">>), LitI(<<"c", "m">>), LitI(<<"m", "m">>)>>), 0, 1)

\* s.match(/head(group)tail/): the text the group captures in the leftmost
\* match, the greedy group taking the longest text that lets the tail match;
\* NoString when there is no match
Match(head, group, tail, s) ==
    LET captures(i) ==
            UNION {{<<p, g>> : g \in {x \in Ends(group, s, p) : Ends(tail, s, x) # {}}} :
                      p \in Ends(head, s, i)}
        starts == {i \in 1..Len(s) : captures(i) # {}}
    IN  IF starts = {} THEN NoString
        ELSE LET i == CHOOSE x \in starts : \A y \in starts : x <= y
                 c == CHOOSE x \in captures(i) : \A y \in captures(i) : y[2] <= x[2]
             IN  Str(SubSeq(s, c[1], c[2] - 1))

\* \sname=["'] under the i flag
SizeAttributeHead(name) ==
    Cat(<<Class(Whitespace), LitI(name), Class({"="}), Class(Quotes)>>)

WidthHead == SizeAttributeHead(<<"w", "i", "d", "t", "h">>)

HeightHead == SizeAttributeHead(<<"h", "e", "i", "g", "h", "t">>)

\* (px|pt|pc|in|cm|mm)?["']
SizeAttributeTail == Cat(<<UnitPattern, Class(Quotes)>>)

\* svgContent.match(/\swidth=["'](\d+(?:\.\d+)?)(px|pt|pc|in|cm|mm)?["']/i)[1],
\* and the same for height
MatchSizeAttribute(head, svgContent) ==
    Match(head, NumberPattern, SizeAttributeTail, svgContent)

\* viewBox=["'] under the i flag
ViewBoxHead ==
    Cat(<<LitI(<<"v", "i", "e", "w", "B", "o", "x">>), Class({"="}), Class(Quotes)>>)

\* [^"']+
ViewBoxValue == Rep(NotClass(Quotes), 1, -1)

QuotePattern == Class(Quotes)

\* svgContent.match(/viewBox=["']([^"']+)["']/i)[1]
MatchViewBox(svgContent) == Match(ViewBoxHead, ViewBoxValue, QuotePattern, svgContent)

DigitValue(c) ==
    CHOOSE v \in 0..9 : <<"0", "1", "2", "3", "4", "5", "6", "7", "8", "9">>[v + 1] = c

RECURSIVE Decimal(_)
\* the number a string of digits denotes, 0 for the empty string
Decimal(ds) ==
    IF ds = <<>> THEN 0
    ELSE 10 * Decimal(SubSeq(ds, 1, Len(ds) - 1)) + DigitValue(ds[Len(ds)])

RECURSIVE Pow10(_)
Pow10(n) == IF n = 0 THEN 1 ELSE 10 * Pow10(n - 1)

\* the end of the longest run of characters of cs that starts at s[i]
RunEnd(s, i, cs) ==
    CHOOSE j \in i..(Len(s) + 1) :
        /\ \A x \in i..(j - 1) : s[x] \in cs
        /\ (j <= Len(s) => s[j] \notin cs)

\* parseFloat(s): leading white space is skipped and the longest prefix that
\* is a decimal literal (sign, digits, fraction) is its value; NaN when there
\* is none.  Exponents and "Infinity" are not among the characters of the model.
parseFloat(s) ==
    LET b == RunEnd(s, 1, Whitespace)
        signed == b <= Len(s) /\ s[b] \in {"+", "-"}
        i == IF signed THEN b + 1 ELSE b
        j == RunEnd(s, i, Digits)
        dot == j <= Len(s) /\ s[j] = "."
        k == IF dot THEN RunEnd(s, j + 1, Digits) ELSE j
        int == SubSeq(s, i, j - 1)
        frac == IF dot THEN SubSeq(s, j + 1, k - 1) ELSE <<>>
        sign == IF signed /\ s[b] = "-" THEN -1 ELSE 1
    IN  IF int = <<>> /\ frac = <<>> THEN NaN
        ELSE Num(sign * (Decimal(int) * Pow10(Len(frac)) + Decimal(frac)),
                 Pow10(Len(frac)))

RECURSIVE Split(_)
\* s.split(/[\s,]+/): the texts between the runs of separators, the empty
\* text before a leading run and after a trailing one included
Split(s) ==
    LET seps == Whitespace \cup {","}
        at == {i \in 1..Len(s) : s[i] \in seps}
    IN  IF at = {} THEN <<s>>
        ELSE LET i == CHOOSE x \in at : \A y \in at : x <= y
                 j == RunEnd(s, i, seps)
             IN  <<SubSeq(s, 1, i - 1)>> \o Split(SubSeq(s, j, Len(s)))

\* The content of an SVG file, as the three searches of parseSVGDimensions see
\* it: the number captured by the width search and by the height search
\* (Undefined: no match), and the values of the viewBox attribute after
\* split(/[\s,]+/).map(parseFloat) (def = FALSE: no match).
Document(w, h, vb) == [width |-> w, height |-> h, viewBox |-> vb]

NoViewBox == [def |-> FALSE, values |-> <<>>]

ViewBox(values) == [def |-> TRUE, values |-> values]

DimensionsUnavailable == "Unable to determine SVG dimensions"

\* a plausible slip: || in place of && in the test of the two matches
parseSVGDimensions_EitherAttribute(doc) ==
    IF doc.width # Undefined \/ doc.height # Undefined
    THEN Return(Size(doc.width, doc.height))
    ELSE IF doc.viewBox.def /\ Len(doc.viewBox.values) = 4
    THEN Return(Size(Sub(doc.viewBox.values[3], doc.viewBox.values[1]),
                     Sub(doc.viewBox.values[4], doc.viewBox.values[2])))
    ELSE Throw(DimensionsUnavailable, "svg")

parseSVGDimensions(doc) ==
    IF doc.width # Undefined /\ doc.height # Undefined
    THEN Return(Size(doc.width, doc.height))
    ELSE IF doc.viewBox.def /\ Len(doc.viewBox.values) = 4
    THEN Return(Size(Sub(doc.viewBox.values[3], doc.viewBox.values[1]),
                     Sub(doc.viewBox.values[4], doc.viewBox.values[2])))
    ELSE Throw(DimensionsUnavailable, "svg")

\* the three searches of parseSVGDimensions on the text of the file
Searches(svgContent) ==
    LET widthMatch == MatchSizeAttribute(WidthHead, svgContent)
        heightMatch == MatchSizeAttribute(HeightHead, svgContent)
        viewBoxMatch == MatchViewBox(svgContent)
        tokens == Split(viewBoxMatch.str)
    IN  Document(IF widthMatch.def THEN parseFloat(widthMatch.str) ELSE Undefined,
                 IF heightMatch.def THEN parseFloat(heightMatch.str) ELSE Undefined,
                 IF viewBoxMatch.def
                 THEN ViewBox([i \in 1..Len(tokens) |-> parseFloat(tokens[i])])
                 ELSE NoViewBox)


---------------------------------------------------------------------------
(* converter.ts: the SVGConverter object and its callers *)

NoSize == Size(Undefined, Undefined)

NoRequest ==
    [inputPath |-> <<>>, outputPath |-> NoString, width |-> Undefined,
     height |-> Undefined, scale |-> Undefined, background |-> NoString,
     quality |-> Undefined]

NoFile ==
    [exists |-> FALSE, readable |-> FALSE,
     doc |-> Document(Undefined, Undefined, NoViewBox)]

\* the locals of convert (and the result convertSVGtoPNG holds during cleanup)
NoLocals ==
    [outputPath |-> <<>>, intrinsic |-> NoSize, final |-> NoSize,
     background |-> <<>>, err |-> "", result |-> <<>>]

\* new SVGConverter(), before any call
ConvInit ==
    /\ pc = "idle"
    /\ caller = "none"
    /\ req = NoRequest
    /\ env = NoFile
    /\ browser = 0
    /\ connected = FALSE
    /\ launched = 0
    /\ closeAsked = {}
    /\ page = FALSE
    /\ loc = NoLocals
    /\ written = FALSE
    /\ outcome = <<>>
    /\ calls = 0
    /\ log = <<>>
    /\ prev = <<>>

browserVars == <<browser, connected, launched, closeAsked>>

NoError == [def |-> FALSE, msg |-> ""]

\* a ConversionResult
Result(success, outputPath, dimensions, error) ==
    [success |-> success, outputPath |-> outputPath,
     dimensions |-> dimensions, error |-> error]

\* what an entry point hands to its caller: a returned value or an exception
Returned(v) == [kind |-> "returned", value |-> <<v>>, msg |-> ""]

Thrown(m) == [kind |-> "thrown", value |-> <<>>, msg |-> m]

\* an exception raised in the try block of convert: control moves to at
Raise(m, at) ==
    /\ loc' = [loc EXCEPT !.err = m]
    /\ pc' = at

\* The requests and files of the model

Chars(a, b, c, d, e) == <<a, b, c, d, e>>

File(exists, readable, doc) == [exists |-> exists, readable |-> readable, doc |-> doc]

Documents ==
    {Document(Num(4, 1), One, NoViewBox),
     Document(Num(2, 1), Num(2, 1), ViewBox(<<Zero, Zero, One, One>>)),
     Document(Zero, Num(2, 1), NoViewBox),
     Document(Num(2, 1), Undefined, ViewBox(<<One, One, Num(4, 1), Num(3, 1)>>)),
     Document(Undefined, Undefined, ViewBox(<<Zero, Zero, NaN, One>>)),
     Document(Undefined, Undefined, ViewBox(<<Zero, Zero, One>>)),
     Document(Undefined, Undefined, NoViewBox)}

\* the input paths and the file each names
Inputs ==
    {[path |-> Chars("a", ".", "s", "v", "g"), file |-> File(TRUE, TRUE, d)] :
        d \in Documents}
    \cup {[path |-> Chars("b", ".", "S", "V", "G"),
           file |-> File(TRUE, TRUE, Document(Num(2, 1), Num(2, 1), NoViewBox))],
          [path |-> Chars("c", ".", "t", "x", "t"),
           file |-> File(TRUE, TRUE, Document(Num(2, 1), Num(2, 1), NoViewBox))],
          [path |-> Chars("m", ".", "s", "v", "g"), file |-> NoFile],
          [path |-> Chars("u", ".", "s", "v", "g"),
           file |-> File(TRUE, FALSE, Document(Num(2, 1), Num(2, 1), NoViewBox))]}

DefaultOptions ==
    [outputPath |-> NoString, width |-> Undefined, height |-> Undefined,
     scale |-> Undefined, background |-> NoString, quality |-> Undefined]

\* the options of a request, the input path apart: none, one, or a pair
Options ==
    {DefaultOptions}
    \cup {[DefaultOptions EXCEPT !.outputPath = Str(Chars("o", ".", "p", "n", "g"))]}
    \cup {[DefaultOptions EXCEPT !.width = w] : w \in {One, Num(-1, 1)}}
    \cup {[DefaultOptions EXCEPT !.height = Num(2, 1)]}
    \cup {[DefaultOptions EXCEPT !.scale = x] : x \in {Num(2, 1), Zero}}
    \cup {[DefaultOptions EXCEPT !.background = Str(b)] :
             b \in {<<"r", "e", "d">>, <<"n", "o", "!">>}}
    \cup {[DefaultOptions EXCEPT !.quality = q] : q \in {Num(50, 1), Num(101, 1)}}
    \cup {[DefaultOptions EXCEPT !.width = One, !.height = Num(2, 1)],
          [DefaultOptions EXCEPT !.width = One, !.quality = Num(50, 1)],
          [DefaultOptions EXCEPT !.width = Num(-1, 1), !.quality = Num(101, 1)]}

Request(path, o) ==
    [inputPath |-> path, outputPath |-> o.outputPath, width |-> o.width,
     height |-> o.height, scale |-> o.scale, background |-> o.background,
     quality |-> o.quality]

\* this.browser is set and still connected
HasLiveBrowser == browser # 0 /\ connected

\* One call made by the conversion: the operation, its arguments (a path, a
\* size, the omitBackground flag, the image type) and the reply it got; the
\* size of a "measure" entry is the size the page reported.
Entry(op, path, size, flag, type, resp) ==
    [op |-> op, path |-> path, size |-> size, flag |-> flag, type |-> type,
     resp |-> resp]

Step(op, resp) == Entry(op, <<>>, NoSize, FALSE, "", resp)

Reply(r) == IF r.type = "throw" THEN "failed" ELSE "ok"

Logged(e) == log' = Append(log, e)

\* await converter.convert(options)
CallConvert ==
    /\ pc = "idle"
    /\ calls < MaxCalls
    /\ \E o \in Options, f \in Inputs :
          /\ req' = Request(f.path, o)
          /\ env' = f.file
    /\ calls' = calls + 1
    /\ caller' = "convert"
    /\ loc' = NoLocals
    /\ written' = FALSE
    /\ outcome' = <<>>
    /\ log' = <<>>
    /\ pc' = "validateInput"
    /\ UNCHANGED <<arg, ret, prev, page, browserVars>>

\* await convertSVGtoPNG(options): a new SVGConverter, then convert
CallConvertSVGtoPNG ==
    /\ pc = "idle"
    /\ calls < MaxCalls
    /\ \E o \in Options, f \in Inputs :
          /\ req' = Request(f.path, o)
          /\ env' = f.file
    /\ calls' = calls + 1
    /\ caller' = "convertSVGtoPNG"
    /\ loc' = NoLocals
    /\ written' = FALSE
    /\ outcome' = <<>>
    /\ log' = <<>>
    /\ browser' = 0
    /\ connected' = FALSE
    /\ launched' = 0
    /\ closeAsked' = {}
    /\ pc' = "validateInput"
    /\ UNCHANGED <<arg, ret, prev, page>>

\* await converter.cleanup()
CallCleanup ==
    /\ pc = "idle"
    /\ calls < MaxCalls
    /\ calls' = calls + 1
    /\ caller' = "cleanup"
    /\ outcome' = <<>>
    /\ log' = <<>>
    /\ pc' = "cleanup"
    /\ UNCHANGED <<arg, ret, prev, req, env, loc, written, page, browserVars>>

\* validateInputFile(options.inputPath)
ValidateInput ==
    /\ pc = "validateInput"
    /\ LET r == validateInputFile(req.inputPath, env)
       IN  /\ Logged(Entry("validateInputFile", req.inputPath, NoSize, FALSE, "",
                           Reply(r)))
           /\ IF r.type = "throw" THEN Raise(r.msg, "catch")
              ELSE pc' = "validateOptions" /\ UNCHANGED loc
    /\ UNCHANGED <<arg, ret, prev, caller, req, env, page, written, outcome, calls,
                   browserVars>>

\* a plausible slip: the failure of validateOptions does not end the conversion
ValidateOptions_NoShortCircuit ==
    /\ pc = "validateOptions"
    /\ Logged(Step("validateOptions", Reply(validateOptions(req))))
    /\ pc' = "outputPath"
    /\ UNCHANGED <<arg, ret, prev, caller, req, env, page, loc, written, outcome,
                   calls, browserVars>>

\* validateOptions(options)
ValidateOptions ==
    /\ pc = "validateOptions"
    /\ LET r == validateOptions(req)
       IN  /\ Logged(Step("validateOptions", Reply(r)))
           /\ IF r.type = "throw" THEN Raise(r.msg, "catch")
              ELSE pc' = "outputPath" /\ UNCHANGED loc
    /\ UNCHANGED <<arg, ret, prev, caller, req, env, page, written, outcome, calls,
                   browserVars>>

\* const outputPath = generateOutputPath(options.inputPath, options.outputPath)
GenerateOutputPath ==
    /\ pc = "outputPath"
    /\ loc' = [loc EXCEPT
                 !.outputPath = generateOutputPath(req.inputPath, req.outputPath)]
    /\ Logged(Entry("generateOutputPath", req.inputPath, NoSize, FALSE, "", "ok"))
    /\ pc' = "parse"
    /\ UNCHANGED <<arg, ret, prev, caller, req, env, page, written, outcome, calls,
                   browserVars>>

\* a plausible slip: no catch block, a failure of parseSVGDimensions ends the
\* conversion
ParseDimensions_FailureEnds ==
    /\ pc = "parse"
    /\ \E readOk \in BOOLEAN :
          LET r == parseSVGDimensions(env.doc)
              e(resp) == Entry("parseSVGDimensions", req.inputPath, NoSize, FALSE,
                               "", resp)
          IN  IF ~readOk \/ r.type = "throw"
              THEN /\ Logged(e("failed"))
                   /\ Raise(DimensionsUnavailable, "catch")
              ELSE /\ Logged(e("ok"))
                   /\ loc' = [loc EXCEPT !.intrinsic = r.value]
                   /\ pc' = "calculate"
    /\ UNCHANGED <<arg, ret, prev, caller, req, env, page, written, outcome, calls,
                   browserVars>>

\* intrinsicDimensions = await parseSVGDimensions(options.inputPath); any
\* failure, of readFile too, is caught and leads to getDimensionsFromBrowser
ParseDimensions ==
    /\ pc = "parse"
    /\ \E readOk \in BOOLEAN :
          LET r == parseSVGDimensions(env.doc)
              e(resp) == Entry("parseSVGDimensions", req.inputPath, NoSize, FALSE,
                               "", resp)
          IN  IF ~readOk \/ r.type = "throw"
              THEN /\ log' = log \o <<e("failed"),
                                      Entry("getDimensionsFromBrowser",
                                            req.inputPath, NoSize, FALSE, "", "")>>
                   /\ pc' = "fb_getBrowser"
                   /\ UNCHANGED loc
              ELSE /\ Logged(e("ok"))
                   /\ loc' = [loc EXCEPT !.intrinsic = r.value]
                   /\ pc' = "calculate"
    /\ UNCHANGED <<arg, ret, prev, caller, req, env, page, written, outcome, calls,
                   browserVars>>

\* a plausible slip: the held browser is not consulted and every call launches
GetBrowser_AlwaysLaunch(here, next) ==
    /\ pc = here
    /\ \E found \in BOOLEAN, started \in BOOLEAN :
          IF ~found
          THEN Raise("Chrome/Chromium not found", "catch")
               /\ Logged(Step("getBrowser", "not found"))
               /\ UNCHANGED browserVars
          ELSE IF ~started
          THEN Raise("Failed to launch the browser process", "catch")
               /\ Logged(Step("getBrowser", "launch failed"))
               /\ UNCHANGED browserVars
          ELSE /\ launched' = launched + 1
               /\ browser' = launched + 1
               /\ connected' = TRUE
               /\ Logged(Step("getBrowser", "launched"))
               /\ pc' = next
               /\ UNCHANGED <<loc, closeAsked>>
    /\ UNCHANGED <<arg, ret, prev, caller, req, env, page, written, outcome, calls>>

\* getBrowser(): launch when there is no browser or it is disconnected; findChrome
\* or puppeteer.launch may fail
GetBrowser(here, next) ==
    /\ pc = here
    /\ IF ~HasLiveBrowser
       THEN \E found \in BOOLEAN, started \in BOOLEAN :
               IF ~found
               THEN Raise("Chrome/Chromium not found", "catch")
                    /\ Logged(Step("getBrowser", "not found"))
                    /\ UNCHANGED browserVars
               ELSE IF ~started
               THEN Raise("Failed to launch the browser process", "catch")
                    /\ Logged(Step("getBrowser", "launch failed"))
                    /\ UNCHANGED browserVars
               ELSE /\ launched' = launched + 1
                    /\ browser' = launched + 1
                    /\ connected' = TRUE
                    /\ Logged(Step("getBrowser", "launched"))
                    /\ pc' = next
                    /\ UNCHANGED <<loc, closeAsked>>
       ELSE /\ Logged(Step("getBrowser", "held"))
            /\ pc' = next
            /\ UNCHANGED <<loc, browserVars>>
    /\ UNCHANGED <<arg, ret, prev, caller, req, env, page, written, outcome, calls>>

\* const page = await browser.newPage(), ahead of the try block
NewPage(here, next) ==
    /\ pc = here
    /\ \E opened \in {connected, FALSE} :
          IF opened
          THEN /\ page' = TRUE
               /\ Logged(Step("newPage", "ok"))
               /\ pc' = next
               /\ UNCHANGED loc
          ELSE Raise("Protocol error: Target.createTarget", "catch")
               /\ Logged(Step("newPage", "failed"))
               /\ UNCHANGED page
    /\ UNCHANGED <<arg, ret, prev, caller, req, env, written, outcome, calls,
                   browserVars>>

\* await page.close() in a finally block: its failure replaces a pending one
ClosePage(here, next) ==
    /\ pc = here
    /\ \E closed \in BOOLEAN :
          IF ~closed
          THEN Raise("Protocol error: Target.closeTarget", "catch")
               /\ Logged(Step("page.close", "failed"))
               /\ UNCHANGED page
          ELSE /\ page' = FALSE
               /\ Logged(Step("page.close", "ok"))
               /\ pc' = IF loc.err # "" THEN "catch" ELSE next
               /\ UNCHANGED loc
    /\ UNCHANGED <<arg, ret, prev, caller, req, env, written, outcome, calls,
                   browserVars>>

FallbackDefault == Num(300, 1)

\* what the page reports for the svg element: getBBox() and the client box
Measurements ==
    {[bbox |-> Size(b, b), client |-> Size(c, c)] :
        b \in {Zero, Num(3, 1)}, c \in {Zero, Num(5, 1)}}

\* getDimensionsFromBrowser, the try block: readFile, setContent, evaluate
MeasureInBrowser ==
    /\ pc = "fb_measure"
    /\ \/ \E m \in Measurements :
            LET measured ==
                  Size(OrElse(OrElse(m.bbox.width, m.client.width), FallbackDefault),
                       OrElse(OrElse(m.bbox.height, m.client.height), FallbackDefault))
            IN  /\ loc' = [loc EXCEPT !.intrinsic = measured]
                /\ Logged(Entry("measure", req.inputPath, measured, FALSE, "", "ok"))
                /\ pc' = "fb_close"
       \/ /\ Raise("No SVG element found", "fb_close")
          /\ Logged(Entry("measure", req.inputPath, NoSize, FALSE, "", "failed"))
    /\ UNCHANGED <<arg, ret, prev, caller, req, env, page, written, outcome, calls,
                   browserVars>>

\* const finalDimensions = calculateDimensions(intrinsicDimensions, {...})
Calculate ==
    /\ pc = "calculate"
    /\ loc' = [loc EXCEPT !.final =
                 calculateDimensions(loc.intrinsic,
                     [width |-> req.width, height |-> req.height,
                      scale |-> req.scale])]
    /\ Logged(Entry("calculateDimensions", <<>>, loc.intrinsic, FALSE, "", "ok"))
    /\ pc' = "background"
    /\ UNCHANGED <<arg, ret, prev, caller, req, env, page, written, outcome, calls,
                   browserVars>>

\* const backgroundColor = normalizeBackgroundColor(options.background)
NormalizeBackground ==
    /\ pc = "background"
    /\ LET r == normalizeBackgroundColor(req.background)
       IN  /\ Logged(Step("normalizeBackgroundColor", Reply(r)))
           /\ IF r.type = "throw" THEN Raise(r.msg, "catch")
              ELSE /\ loc' = [loc EXCEPT !.background = r.value]
                   /\ pc' = "cv_getBrowser"
    /\ UNCHANGED <<arg, ret, prev, caller, req, env, page, written, outcome, calls,
                   browserVars>>

\* a plausible slip: the quality reaches the screenshot, which becomes a jpeg
Screenshot_QualityAsJpeg(resp) ==
    Entry("screenshot", req.inputPath, loc.final, loc.background = TRANSPARENT,
          IF req.quality = Undefined THEN "png" ELSE "jpeg", resp)

\* page.screenshot({ type: 'png', omitBackground: backgroundColor ===
\* 'transparent', clip: { x: 0, y: 0, width, height } }) on the page that was
\* given the same size as viewport and the file as content
Screenshot(resp) ==
    Entry("screenshot", req.inputPath, loc.final, loc.background = TRANSPARENT,
          "png", resp)

\* convertWithPuppeteer, the try block up to the screenshot: setViewport,
\* readFile, setContent, screenshot.  The renderer is handed loc.final as
\* viewport and clip; it either delivers the capture or fails.
Render ==
    /\ pc = "cv_render"
    /\ \/ /\ Logged(Screenshot("ok"))
          /\ pc' = "cv_write"
          /\ UNCHANGED loc
       \/ /\ Logged(Screenshot("failed"))
          /\ Raise("Protocol error: Page.captureScreenshot", "cv_close")
    /\ UNCHANGED <<arg, ret, prev, caller, req, env, page, written, outcome, calls,
                   browserVars>>

\* await writeFile(outputPath, screenshot)
WriteFile ==
    /\ pc = "cv_write"
    /\ \/ /\ written' = TRUE
          /\ Logged(Entry("writeFile", loc.outputPath, NoSize, FALSE, "", "ok"))
          /\ pc' = "cv_close"
          /\ UNCHANGED loc
       \/ /\ Raise("EACCES", "cv_close")
          /\ Logged(Entry("writeFile", loc.outputPath, NoSize, FALSE, "", "failed"))
          /\ UNCHANGED written
    /\ UNCHANGED <<arg, ret, prev, caller, req, env, page, outcome, calls, browserVars>>

\* convert hands r to its caller: the method's caller, or convertSVGtoPNG,
\* which holds it through its finally block
Deliver(r) ==
    IF caller = "convertSVGtoPNG"
    THEN /\ loc' = [loc EXCEPT !.result = <<r>>]
         /\ pc' = "finally"
         /\ UNCHANGED outcome
    ELSE /\ outcome' = <<Returned(r)>>
         /\ pc' = "done"
         /\ UNCHANGED loc

\* return { success: true, outputPath, dimensions: finalDimensions }
ReturnSuccess ==
    /\ pc = "return"
    /\ Deliver(Result(TRUE, loc.outputPath, loc.final, NoError))
    /\ UNCHANGED <<arg, ret, prev, caller, req, env, page, written, calls, log,
                   browserVars>>

\* a plausible slip: the catch block lets the error through to the caller
CatchError_Rethrows ==
    /\ pc = "catch"
    /\ outcome' = <<Thrown(loc.err)>>
    /\ pc' = "done"
    /\ UNCHANGED <<arg, ret, prev, caller, req, env, page, loc, written, calls,
                   log, browserVars>>

\* catch (error): return { success: false, outputPath: options.outputPath || '',
\* dimensions: { width: 0, height: 0 }, error: message }
CatchError ==
    /\ pc = "catch"
    /\ Deliver(Result(FALSE,
                      IF FalsyString(req.outputPath) THEN <<>> ELSE req.outputPath.str,
                      Size(Zero, Zero),
                      [def |-> TRUE, msg |-> loc.err]))
    /\ UNCHANGED <<arg, ret, prev, caller, req, env, page, written, calls, log,
                   browserVars>>

\* cleanup(): if (this.browser) { await this.browser.close(); this.browser =
\* undefined }, called as a method or from the finally block of convertSVGtoPNG;
\* a failure of close leaves the handle set and propagates
Cleanup ==
    /\ pc \in {"cleanup", "finally"}
    /\ IF browser # 0
       THEN /\ closeAsked' = closeAsked \cup {browser}
            /\ \E closed \in BOOLEAN :
                  IF closed
                  THEN /\ browser' = 0
                       /\ connected' = FALSE
                       /\ Logged(Step("browser.close", "ok"))
                       /\ outcome' = IF pc = "finally"
                                     THEN <<Returned(loc.result[1])>>
                                     ELSE <<Returned(0)>>
                  ELSE /\ outcome' = <<Thrown("Protocol error: Browser.close")>>
                       /\ Logged(Step("browser.close", "failed"))
                       /\ UNCHANGED <<browser, connected>>
       ELSE /\ outcome' = IF pc = "finally"
                          THEN <<Returned(loc.result[1])>>
                          ELSE <<Returned(0)>>
            /\ UNCHANGED <<browser, connected, closeAsked, log>>
    /\ pc' = "done"
    /\ UNCHANGED <<arg, ret, prev, caller, req, env, page, loc, written, calls, launched>>

\* the caller resumes with the outcome; the locals of the call go out of scope
Resume ==
    /\ pc = "done"
    /\ pc' = "idle"
    /\ caller' = "none"
    /\ req' = NoRequest
    /\ env' = NoFile
    /\ loc' = NoLocals
    /\ page' = FALSE
    /\ written' = FALSE
    /\ outcome' = <<>>
    /\ log' = <<>>
    /\ UNCHANGED <<arg, ret, prev, calls, browserVars>>

\* the browser process dies or its connection drops
Disconnect ==
    /\ HasLiveBrowser
    /\ connected' = FALSE
    /\ UNCHANGED <<arg, ret, prev, pc, caller, req, env, browser, launched,
                   closeAsked, page, loc, written, outcome, calls, log>>

Next ==
    \/ CallConvert
    \/ CallConvertSVGtoPNG
    \/ CallCleanup
    \/ ValidateInput
    \/ ValidateOptions
    \/ GenerateOutputPath
    \/ ParseDimensions
    \/ GetBrowser("fb_getBrowser", "fb_newPage")
    \/ NewPage("fb_newPage", "fb_measure")
    \/ MeasureInBrowser
    \/ ClosePage("fb_close", "calculate")
    \/ Calculate
    \/ NormalizeBackground
    \/ GetBrowser("cv_getBrowser", "cv_newPage")
    \/ NewPage("cv_newPage", "cv_render")
    \/ Render
    \/ WriteFile
    \/ ClosePage("cv_close", "return")
    \/ ReturnSuccess
    \/ CatchError
    \/ Cleanup
    \/ Resume
    \/ Disconnect

Init == arg = <<>> /\ ret = <<>> /\ ConvInit

Spec == Init /\ [][Next]_vars

---------------------------------------------------------------------------
(* Properties of convert, convertSVGtoPNG and getBrowser *)

\* convert has handed its result to its caller
ConvertReturned ==
    \/ caller = "convert" /\ pc = "done" /\ outcome[1].kind = "returned"
    \/ caller = "convertSVGtoPNG" /\ pc = "finally"

\* the ConversionResult convert returned
ConvertResult ==
    IF caller = "convert" THEN outcome[1].value[1] ELSE loc.result[1]

PositiveFinite(x) == x.k = "num" /\ x.n > 0

\* C2: the dimensions of every outcome with success = true are strictly
\* positive and finite on both axes.
C2_SuccessDimensionsPositive ==
    (ConvertReturned /\ ConvertResult.success)
    => /\ PositiveFinite(ConvertResult.dimensions.width)
       /\ PositiveFinite(ConvertResult.dimensions.height)

\* the steps of convert between its call and its return
InConvert ==
    pc \in {"validateInput", "validateOptions", "outputPath", "parse",
            "fb_getBrowser", "fb_newPage", "fb_measure", "fb_close", "calculate",
            "background", "cv_getBrowser", "cv_newPage", "cv_render", "cv_write",
            "cv_close", "return", "catch"}

\* C3: convert never throws; whenever it completes it returns an outcome, which
\* is either a success without an error, reached only with no failure pending
\* and after the write, or a failure that carries the message of the failure
\* raised by a stage.
C3_ConvertNeverThrows ==
    /\ (caller = "convert" /\ pc = "done") => outcome[1].kind = "returned"
    /\ ConvertReturned =>
          \/ /\ ConvertResult.success
             /\ ~ConvertResult.error.def
             /\ loc.err = ""
          \/ /\ ~ConvertResult.success
             /\ ConvertResult.error.def
             /\ ConvertResult.error.msg = loc.err
             /\ loc.err # ""
    /\ (InConvert /\ loc.err # "") => pc \in {"fb_close", "cv_close", "catch"}

\* a failure of page.close() after the write is turned into a failed outcome
C3_Witness ==
    /\ ConvertReturned
    /\ caller = "convert"
    /\ ~ConvertResult.success
    /\ ConvertResult.error = [def |-> TRUE, msg |-> "Protocol error: Target.closeTarget"]
    /\ written

\* C4: convertSVGtoPNG never throws: it always completes by returning a
\* ConversionResult, also when cleanup fails to close the browser.
C4_TopLevelNeverThrows ==
    (caller = "convertSVGtoPNG" /\ pc = "done") => outcome[1].kind = "returned"

\* C10 as stated: a converter launches at most one browser in its lifetime.
C10_AtMostOneLaunch == launched <= 1

\* C10 as amended: getBrowser launches a browser only when the converter holds
\* none or holds one that is no longer connected, and the launched browser
\* becomes the held one; while the held browser is connected, getBrowser
\* launches nothing and keeps it.
C10_LaunchOnlyWithoutLiveBrowser ==
    [][/\ launched' > launched
          => /\ ~HasLiveBrowser
             /\ launched' = launched + 1
             /\ browser' = launched'
             /\ connected'
       /\ (pc \in {"fb_getBrowser", "cv_getBrowser"} /\ HasLiveBrowser /\ pc' # pc)
          => /\ launched' = launched
             /\ browser' = browser]_vars

\* a conversion of a file without size metadata: the fallback measurement
\* launched the browser, and the rendering goes on with that same instance
C10_Witness ==
    /\ calls = 1
    /\ caller = "convert"
    /\ env.doc = Document(Undefined, Undefined, NoViewBox)
    /\ pc = "cv_newPage"
    /\ launched = 1
    /\ browser = 1
    /\ connected

\* C11: in convertSVGtoPNG, cleanup runs after the conversion on every path, so
\* that when convertSVGtoPNG completes every browser instance launched for
\* the conversion has been asked to close and the converter holds no browser.
C11_CleanupReleasesBrowser ==
    (caller = "convertSVGtoPNG" /\ pc = "done")
    => /\ browser = 0
       /\ closeAsked = 1..launched

\* the stages of convert, in the order of the code
StageOrder ==
    <<"validateInputFile", "validateOptions", "generateOutputPath",
      "parseSVGDimensions", "calculateDimensions", "normalizeBackgroundColor",
      "screenshot", "writeFile">>

StageNames == Range(StageOrder)

IsStage(e) == e.op \in StageNames

\* the stages the conversion in flight has run so far
StagesRun == SelectSeq(log, IsStage)

Failed(e) == e.resp \in {"failed", "not found", "launch failed"}

\* entry i is a failure that ends the conversion: any failure but the one of
\* parseSVGDimensions, which hands over to the measurement in the browser
Fatal(i) == Failed(log[i]) /\ log[i].op # "parseSVGDimensions"

\* what C15 says whatever "invalid" means: the stages run in the fixed order,
\* nothing but closing the page and the browser follows a failure, the file is
\* written only after every earlier stage succeeded, and success = true is
\* returned only after the write
StagesShortCircuit ==
    LET run == StagesRun
        fatal == {i \in 1..Len(log) : Fatal(i)}
        writes == {j \in 1..Len(log) : log[j].op = "writeFile"}
    IN  /\ Len(run) <= Len(StageOrder)
        /\ \A k \in 1..Len(run) : run[k].op = StageOrder[k]
        /\ \A i \in fatal :
              \A j \in (i + 1)..Len(log) : log[j].op \in {"page.close", "browser.close"}
        /\ \A j \in writes :
              /\ Len(SelectSeq(SubSeq(log, 1, j), IsStage)) = Len(StageOrder)
              /\ \A i \in fatal : j <= i
        /\ written <=> \E j \in writes : log[j].resp = "ok"
        /\ (ConvertReturned /\ ConvertResult.success) => (written /\ fatal = {})

\* the conversion in flight has just asked for a browser
BrowserRequested == Len(log) > 0 /\ log[Len(log)].op = "getBrowser"

\* the request fails validateInputFile or validateOptions
FailsValidation ==
    \/ validateInputFile(req.inputPath, env).type = "throw"
    \/ validateOptions(req).type = "throw"

\* C15 as stated: the stages run in the fixed order and a failure ends the
\* conversion; no browser is launched for a request whose input or options
\* are invalid, an invalid background colour included.
C15_AsStated ==
    /\ StagesShortCircuit
    /\ (caller \in {"convert", "convertSVGtoPNG"} /\ BrowserRequested)
       => /\ ~FailsValidation
          /\ normalizeBackgroundColor(req.background).type # "throw"

\* C15 as amended: the stages run in the fixed order and a failure ends the
\* conversion; whenever a browser is asked for, the request has passed
\* validateInputFile and validateOptions.  The background colour is only checked by the sixth
\* stage, after the browser may have been launched to measure the SVG.
C15_StagesInOrder ==
    /\ StagesShortCircuit
    /\ (caller \in {"convert", "convertSVGtoPNG"} /\ BrowserRequested)
       => ~FailsValidation

\* the screenshot failed after seven stages: nothing is written and the
\* outcome is a failure
C15_Witness ==
    /\ ConvertReturned
    /\ ~ConvertResult.success
    /\ Len(StagesRun) = 7
    /\ Failed(StagesRun[7])
    /\ ~written

\* invalid options: the conversion ends after the second stage, no browser launched
C15_InvalidOptionsWitness ==
    /\ ConvertReturned
    /\ caller = "convertSVGtoPNG"
    /\ validateOptions(req).type = "throw"
    /\ Len(log) = 2
    /\ launched = 0

\* the entries of the log made by op
EntriesOf(op) == SelectSeq(log, LAMBDA e : e.op = op)

\* what C16 says of a conversion whatever its end: the measurement in the
\* browser is invoked exactly when parseSVGDimensions failed; when it
\* succeeded, nothing is measured and calculateDimensions receives the
\* extracted size; when it failed, calculateDimensions receives the size the
\* page reported
FallbackIffExtractorFailed ==
    LET parse == EntriesOf("parseSVGDimensions")
        fallback == EntriesOf("getDimensionsFromBrowser")
        measure == EntriesOf("measure")
        resolve == EntriesOf("calculateDimensions")
        extracted == parseSVGDimensions(env.doc)
    IN  /\ Len(parse) <= 1 /\ Len(fallback) <= 1 /\ Len(resolve) <= 1
        /\ Len(fallback) = 1 <=> (Len(parse) = 1 /\ Failed(parse[1]))
        /\ (Len(parse) = 1 /\ extracted.type = "throw") => Failed(parse[1])
        /\ (Len(parse) = 1 /\ ~Failed(parse[1]))
           => /\ extracted.type = "return"
              /\ Len(measure) = 0
              /\ Len(resolve) = 1 => resolve[1].size = extracted.value
        /\ (Len(parse) = 1 /\ Failed(parse[1]) /\ Len(resolve) = 1)
           => /\ Len(measure) = 1
              /\ measure[1].resp = "ok"
              /\ resolve[1].size = measure[1].size

ExtractorFailed == \E i \in 1..Len(log) : log[i].op = "parseSVGDimensions" /\ Failed(log[i])

\* C16 as stated: the fallback is invoked if and only if the extractor failed,
\* and then the conversion goes on to calculateDimensions with the measured
\* size instead of ending in a failed outcome.
C16_AsStated ==
    /\ FallbackIffExtractorFailed
    /\ (ConvertReturned /\ ExtractorFailed)
       => Len(EntriesOf("calculateDimensions")) = 1

\* C16 as amended: the fallback is invoked if and only if the extractor failed;
\* the conversion then goes on with the measured size when the measurement
\* succeeds, and ends in a failed outcome that carries the error of the
\* measurement (never the one of the extractor) when the browser cannot be
\* had, the page cannot be opened or closed, or the measurement fails.
C16_FallbackOnExtractorFailure ==
    /\ FallbackIffExtractorFailed
    /\ (ConvertReturned /\ ExtractorFailed)
       => LET i == CHOOSE x \in 1..Len(log) : log[x].op = "getDimensionsFromBrowser"
              discovery == SubSeq(log, i + 1, IF Len(log) < i + 4 THEN Len(log) ELSE i + 4)
              failures == SelectSeq(discovery, Failed)
          IN  IF failures = <<>>
              THEN /\ [k \in 1..4 |-> discovery[k].op]
                        = <<"getBrowser", "newPage", "measure", "page.close">>
                   /\ Len(EntriesOf("calculateDimensions")) = 1
              ELSE /\ Len(EntriesOf("calculateDimensions")) = 0
                   /\ ~ConvertResult.success
                   /\ ConvertResult.error.def
                   /\ ConvertResult.error.msg \in
                         {"Chrome/Chromium not found",
                          "Failed to launch the browser process",
                          "Protocol error: Target.createTarget",
                          "No SVG element found",
                          "Protocol error: Target.closeTarget"}
    /\ ConvertReturned => ConvertResult.error.msg # DimensionsUnavailable

\* an SVG without size attributes: the page reports 3 x 3, calculateDimensions
\* receives it and the conversion succeeds
C16_Witness ==
    /\ ConvertReturned
    /\ ConvertResult.success
    /\ env.doc = Document(Undefined, Undefined, NoViewBox)
    /\ ExtractorFailed
    /\ Len(EntriesOf("measure")) = 1
    /\ EntriesOf("calculateDimensions")[1].size = Size(Num(3, 1), Num(3, 1))

\* the extractor failed and so did the measurement: a failed outcome
C16_MeasurementFailedWitness ==
    /\ ConvertReturned
    /\ ExtractorFailed
    /\ ~ConvertResult.success
    /\ ConvertResult.error.msg = "No SVG element found"

---------------------------------------------------------------------------
(* calculateDimensions applied to sampled inputs *)

\* the positive finite numbers n/d sampled
PosNums == {Num(n, d) : n \in 1..MaxNum, d \in 1..MaxDen}

Scales == {Num(n, d) : n \in 1..MaxScaleNum, d \in 1..2}

CalcInit ==
    /\ arg \in [intrinsic : [width : PosNums, height : PosNums],
                 options : [width : PosNums \cup {Undefined},
                            height : PosNums \cup {Undefined},
                            scale : Scales \cup {Undefined}]]
    /\ ret = <<>>
    /\ ConvInit

CalcCall ==
    /\ ret = <<>>
    /\ ret' = <<calculateDimensions(arg.intrinsic, arg.options)>>
    /\ UNCHANGED <<arg>>
    /\ UNCHANGED convVars

SpecCalc == CalcInit /\ [][CalcCall]_vars

\* r is x rounded to the nearest integer, a tie going up: r - 1/2 <= x < r + 1/2
IsRounded(r, x) ==
    /\ r.k = "num" /\ r.d = 1 /\ x.k = "num"
    /\ (2 * r.n - 1) * x.d <= 2 * x.n
    /\ 2 * x.n < (2 * r.n + 1) * x.d

\* the scale of the call, 1 when absent
ScaleOf(o) == IF o.scale = Undefined THEN One ELSE o.scale

\* the rational (a * b / c) * s
Prop(a, b, c, s) == Num(a.n * b.n * c.d * s.n, a.d * b.d * c.n * s.d)

Called == ret # <<>>

\* C1: with both width and height requested and scale absent or 1, the result
\* fits inside the requested box on both axes.
C1_FitsInsideBox ==
    (/\ Called
     /\ arg.options.width # Undefined /\ arg.options.height # Undefined
     /\ arg.options.scale \in {Undefined, One})
    => /\ Le(ret[1].width, arg.options.width)
       /\ Le(ret[1].height, arg.options.height)

\* C5: with neither width nor height requested the result is the intrinsic
\* size times the scale (1 when absent), each axis rounded to the nearest integer.
C5_IntrinsicTimesScale ==
    (/\ Called
     /\ arg.options.width = Undefined /\ arg.options.height = Undefined)
    => /\ IsRounded(ret[1].width, Mul(arg.intrinsic.width, ScaleOf(arg.options)))
       /\ IsRounded(ret[1].height, Mul(arg.intrinsic.height, ScaleOf(arg.options)))

C5_Witness ==
    /\ Called
    /\ arg.options.width = Undefined /\ arg.options.height = Undefined
    /\ arg.intrinsic = Size(Num(3, 2), Num(1, 2))
    /\ arg.options.scale = Num(3, 2)
    /\ ret[1] = Size(Num(2, 1), Num(1, 1))

\* C6: with exactly one of width and height requested, the requested axis is
\* round(given * scale) and the other is round(given * aspect * scale), the
\* aspect taken from the intrinsic size.
C6_OneAxisGiven ==
    LET o == arg.options
        i == arg.intrinsic
        s == ScaleOf(o)
    IN  /\ (Called /\ o.width # Undefined /\ o.height = Undefined)
           => /\ IsRounded(ret[1].width, Mul(o.width, s))
              /\ IsRounded(ret[1].height, Prop(o.width, i.height, i.width, s))
        /\ (Called /\ o.width = Undefined /\ o.height # Undefined)
           => /\ IsRounded(ret[1].height, Mul(o.height, s))
              /\ IsRounded(ret[1].width, Prop(o.height, i.width, i.height, s))

C6_Witness ==
    /\ Called
    /\ arg.options.width = Num(3, 1) /\ arg.options.height = Undefined
    /\ arg.options.scale = Num(3, 2)
    /\ arg.intrinsic = Size(Num(2, 1), Num(1, 1))
    /\ ret[1] = Size(Num(5, 1), Num(2, 1))

\* C7: with both requested, the binding axis is the width when the intrinsic
\* aspect exceeds the requested aspect and the height otherwise (equal aspects
\* included); the fitted pair is scaled and rounded per axis.
C7_BothGiven ==
    LET o == arg.options
        i == arg.intrinsic
        s == ScaleOf(o)
        \* intrinsic.width / intrinsic.height > width / height, cross-multiplied
        wider == i.width.n * i.height.d * o.height.n * o.width.d
                 > o.width.n * o.height.d * i.height.n * i.width.d
    IN  (Called /\ o.width # Undefined /\ o.height # Undefined)
        => IF wider
           THEN /\ IsRounded(ret[1].width, Mul(o.width, s))
                /\ IsRounded(ret[1].height, Prop(o.width, i.height, i.width, s))
           ELSE /\ IsRounded(ret[1].height, Mul(o.height, s))
                /\ IsRounded(ret[1].width, Prop(o.height, i.width, i.height, s))

C7_Witness ==
    /\ Called
    /\ arg.intrinsic = Size(Num(2, 1), Num(1, 1))
    /\ arg.options.width = Num(4, 1) /\ arg.options.height = Num(4, 1)
    /\ arg.options.scale = Undefined
    /\ ret[1] = Size(Num(4, 1), Num(2, 1))

---------------------------------------------------------------------------
(* validateOptions applied to sampled inputs *)

OptionValues ==
    {Undefined, NaN, Infinity(1), Infinity(-1), Zero, Num(-1, 1), Num(1, 2),
     One, Hundred, Num(101, 1)}

ValidateInit ==
    /\ arg \in [width : OptionValues, height : OptionValues,
                 scale : OptionValues, quality : OptionValues]
    /\ ret = <<>>
    /\ ConvInit

ValidateCall ==
    /\ ret = <<>>
    /\ ret' = <<validateOptions(arg)>>
    /\ UNCHANGED <<arg>>
    /\ UNCHANGED convVars

SpecValidate == ValidateInit /\ [][ValidateCall]_vars

\* a present value that is not a positive finite number
OutOfRange(x) == x.k \in {"nan", "inf"} \/ (x.k = "num" /\ x.n <= 0)

\* a present quality below 0 or above 100
QualityOutOfRange(x) ==
    \/ x.k = "inf"
    \/ x.k = "num" /\ (x.n < 0 \/ x.n > 100 * x.d)

\* the first option out of range in the order width, height, scale, quality
FirstOutOfRange(o) ==
    IF OutOfRange(o.width) THEN "width"
    ELSE IF OutOfRange(o.height) THEN "height"
    ELSE IF OutOfRange(o.scale) THEN "scale"
    ELSE IF QualityOutOfRange(o.quality) THEN "quality"
    ELSE ""

\* C8: validateOptions fails exactly when a present option is out of range, and
\* the error names the first such option in the order width, height, scale,
\* quality; absent options are accepted.
C8_ValidateOptions ==
    Called =>
        /\ (ret[1].type = "throw") <=> (FirstOutOfRange(arg) # "")
        /\ ret[1].type = "throw" => ret[1].field = FirstOutOfRange(arg)
        /\ ret[1].type \in {"throw", "return"}

C8_Witness ==
    /\ Called
    /\ arg.width = Undefined
    /\ arg.height = Zero
    /\ arg.scale = NaN
    /\ arg.quality = Num(101, 1)
    /\ ret[1].type = "throw" /\ ret[1].field = "height"

---------------------------------------------------------------------------
(* normalizeBackgroundColor applied to sampled inputs *)

BgAlphabet == {"#", "a", "G", "1", "(", ")", "!"}

RECURSIVE StringsUpTo(_, _)
\* the strings over the alphabet A of length at most n
StringsUpTo(A, n) ==
    IF n = 0 THEN {<<>>}
    ELSE LET shorter == StringsUpTo(A, n - 1)
         IN  shorter \cup {Append(s, c) : s \in shorter, c \in A}

\* c repeated n times
Run(c, n) == [i \in 1..n |-> c]

\* a prefix, a run of one character, a suffix
Shaped ==
    {p \o Run(c, n) \o q :
        p \in {<<>>, <<"#">>, <<"r", "g", "b", "(">>, <<"R", "G", "B", "A", "(">>,
               <<"r", "g", "b", "a">>, <<"r", "g", "(">>},
        c \in {"f", "0", "g", ",", "("},
        n \in 0..MaxRun,
        q \in {<<>>, <<")">>, <<")", ")">>, <<")", "x">>}}

Samples ==
    {TRANSPARENT,
     <<"T", "r", "a", "n", "s", "p", "a", "r", "e", "n", "t">>,
     <<"n", "o", "t", "-", "a", "-", "c", "o", "l", "o", "r", "!">>,
     <<"w", "h", "i", "t", "e">>,
     <<"#", "F", "F", "0", "0", "0", "0">>,
     <<"r", "g", "b", "a", "(", "2", "5", "5", ",", "0", ".", "5", ")">>}

BgStrings == StringsUpTo(BgAlphabet, MaxBgLen) \cup Shaped \cup Samples

BgInit ==
    /\ arg \in {NoString} \cup {Str(s) : s \in BgStrings}
    /\ ret = <<>>
    /\ ConvInit

BgCall ==
    /\ ret = <<>>
    /\ ret' = <<normalizeBackgroundColor(arg)>>
    /\ UNCHANGED <<arg>>
    /\ UNCHANGED convVars

SpecBg == BgInit /\ [][BgCall]_vars

IsLetter(c) == \E i \in 1..26 : c = LowerCase[i] \/ c = UpperCase[i]

IsHexDigit(c) ==
    \/ c \in Digits
    \/ \E i \in 1..6 : c = LowerCase[i] \/ c = UpperCase[i]

\* # followed by 3 to 8 hex digits
HexShape(s) ==
    /\ Len(s) \in 4..9
    /\ s[1] = "#"
    /\ \A i \in 2..Len(s) : IsHexDigit(s[i])

\* s begins with the letters of word, in either case
BeginsWithI(s, word) ==
    /\ Len(s) >= Len(word)
    /\ \A i \in 1..Len(word) : s[i] \in IgnoreCase(word[i])

\* the function name name, "(", a non-empty content without ")", and ")"
CallShape(s, name) ==
    /\ BeginsWithI(s, name)
    /\ Len(s) >= Len(name) + 3
    /\ s[Len(name) + 1] = "("
    /\ s[Len(s)] = ")"
    /\ \A i \in (Len(name) + 2)..(Len(s) - 1) : s[i] # ")"

\* rgb(...) or rgba(...)
RgbShape(s) ==
    CallShape(s, <<"r", "g", "b">>) \/ CallShape(s, <<"r", "g", "b", "a">>)

\* a bare alphabetic token
AlphaShape(s) == Len(s) >= 1 /\ \A i \in 1..Len(s) : IsLetter(s[i])

ColorShape(s) == HexShape(s) \/ RgbShape(s) \/ AlphaShape(s)

\* C9 as stated: "transparent" for an absent specification or the literal
\* "transparent"; every other string is returned unchanged when it has the shape
\* of a color and is refused otherwise.
C9_AsStated ==
    Called =>
        IF ~arg.def \/ arg.str = TRANSPARENT
        THEN ret[1] = Return(TRANSPARENT)
        ELSE IF ColorShape(arg.str) THEN ret[1] = Return(arg.str)
        ELSE ret[1].type = "throw"

\* C9 as amended: the empty string counts as absent and gives "transparent";
\* every other string is returned unchanged when it has the shape of a color
\* (letters in either case) and is refused otherwise.
C9_Normalize ==
    Called =>
        IF ~arg.def \/ arg.str = <<>> \/ arg.str = TRANSPARENT
        THEN ret[1] = Return(TRANSPARENT)
        ELSE IF ColorShape(arg.str) THEN ret[1] = Return(arg.str)
        ELSE ret[1] = Throw("Invalid background color", "background")

C9_Witness ==
    /\ Called
    /\ arg = Str(<<"#", "f", "f", "f", "f", "f", "f", "f", "f">>)
    /\ ret[1] = Return(arg.str)

---------------------------------------------------------------------------
(* parseSVGDimensions applied to sampled SVG texts *)

Attr(name, q, value) == <<" ">> \o name \o <<"=", q>> \o value \o <<q>>

WidthName == <<"w", "i", "d", "t", "h">>

HeightName == <<"h", "e", "i", "g", "h", "t">>

ViewBoxName == <<"v", "i", "e", "w", "B", "o", "x">>

\* the attributes the sampled texts are made of
Fragments ==
    {Attr(WidthName, "'", <<"2", ".", "5", "p", "x">>),
     Attr(WidthName, "\"", <<"0">>),
     Attr(WidthName, "\"", <<"5", "0", "%">>),
     Attr(<<"s", "t", "r", "o", "k", "e", "-">> \o WidthName, "\"", <<"9">>),
     Attr(HeightName, "\"", <<"2">>),
     Attr(<<"H", "E", "I", "G", "H", "T">>, "\"", <<"1", ".", "5", "p", "t">>),
     Attr(ViewBoxName, "\"", <<"1", ",", "1", " ", "4", ",", " ", "3">>),
     Attr(ViewBoxName, "\"", <<" ", "0", " ", "0", " ", "2", " ", "1">>),
     Attr(<<"v", "i", "e", "w", "b", "o", "x">>, "'",
          <<"0", " ", "0", " ", "x", " ", "1">>),
     Attr(ViewBoxName, "\"", <<"0", " ", "0", " ", "2">>),
     Attr(ViewBoxName, "\"", <<"2", " ", "0", " ", "1", " ", "1">>)}

RECURSIVE AttributeLists(_)
\* the texts of up to n attributes
AttributeLists(n) ==
    IF n = 0 THEN {<<>>}
    ELSE LET shorter == AttributeLists(n - 1)
         IN  shorter \cup {t \o f : t \in shorter, f \in Fragments}

SvgTag(attributes) == <<"<", "s", "v", "g">> \o attributes \o <<">">>

ParseInit ==
    /\ arg \in {SvgTag(t) : t \in AttributeLists(MaxAttrs)}
    /\ ret = <<>>
    /\ ConvInit

\* parseSVGDimensions on a file whose content is arg
ParseCall ==
    /\ ret = <<>>
    /\ ret' = <<parseSVGDimensions(Searches(arg))>>
    /\ UNCHANGED <<arg>>
    /\ UNCHANGED convVars

SpecParse == ParseInit /\ [][ParseCall]_vars

\* C12: parseSVGDimensions returns a size only if both components are positive
\* and finite; a zero, negative or non-numeric component makes it fail.
C12_ExtractedSizePositive ==
    (Called /\ ret[1].type = "return")
    => /\ PositiveFinite(ret[1].value.width)
       /\ PositiveFinite(ret[1].value.height)

\* the size the viewBox step derives from four values
ViewBoxSize(v) == Size(Sub(v[3], v[1]), Sub(v[4], v[2]))

\* C13: the explicit-attribute step matches only when both a width and a height
\* attribute are found, and then wins over any viewBox; otherwise the size
\* comes from the viewBox step, and when that does not match either the
\* extraction fails with the dimensions-unavailable error.
C13_AttributesThenViewBox ==
    Called =>
       LET d == Searches(arg)
           both == d.width # Undefined /\ d.height # Undefined
           four == d.viewBox.def /\ Len(d.viewBox.values) = 4
       IN  /\ both => ret[1] = Return(Size(d.width, d.height))
           /\ (~both /\ four) => ret[1] = Return(ViewBoxSize(d.viewBox.values))
           /\ (~both /\ ~four)
              => ret[1].type = "throw" /\ ret[1].msg = DimensionsUnavailable

\* a width attribute alone does not make the first step match: the size is
\* the one of the viewBox that precedes it in the text
C13_ViewBoxWitness ==
    /\ Called
    /\ arg = SvgTag(Attr(ViewBoxName, "\"", <<"1", ",", "1", " ", "4", ",", " ", "3">>)
                    \o Attr(WidthName, "'", <<"2", ".", "5", "p", "x">>))
    /\ ret[1] = Return(Size(Num(3, 1), Num(2, 1)))

\* both attributes found, the unit dropped, the viewBox ignored
C13_BothWitness ==
    /\ Called
    /\ arg = SvgTag(Attr(ViewBoxName, "\"", <<"1", ",", "1", " ", "4", ",", " ", "3">>)
                    \o Attr(<<"H", "E", "I", "G", "H", "T">>, "\"",
                            <<"1", ".", "5", "p", "t">>)
                    \o Attr(WidthName, "'", <<"2", ".", "5", "p", "x">>))
    /\ ret[1] = Return(Size(Num(5, 2), Num(3, 2)))

\* the tokens of a viewBox value: its longest runs of characters that are
\* neither white space nor commas
Tokens(s) == SelectSeq(Split(s), LAMBDA t : t # <<>>)

\* [+-]?(\d+(\.\d*)?|\.\d+) and nothing else
IsNumericToken(t) ==
    TestAnchored(
        Cat(<<Rep(Class({"+", "-"}), 0, 1),
              Alt(<<Cat(<<Rep(Class(Digits), 1, -1),
                          Rep(Cat(<<Class({"."}), Rep(Class(Digits), 0, -1)>>), 0, 1)>>),
                    Cat(<<Class({"."}), Rep(Class(Digits), 1, -1)>>)>>)>>),
        t)

\* C14: when the explicit-attribute step does not match, the viewBox step
\* yields a size exactly when the value of the attribute consists of 4 numeric
\* tokens separated by white space and/or commas, and the size is then
\* (value[2] - value[0], value[3] - value[1]); otherwise the extraction ends
\* with the dimensions-unavailable error.
C14_ViewBoxFourNumericTokens ==
    LET d == Searches(arg)
        v == MatchViewBox(arg)
        tokens == Tokens(v.str)
        wellFormed == /\ v.def
                      /\ Len(tokens) = 4
                      /\ \A i \in 1..4 : IsNumericToken(tokens[i])
    IN  (Called /\ ~(d.width # Undefined /\ d.height # Undefined))
        => IF wellFormed
           THEN ret[1] = Return(ViewBoxSize([i \in 1..4 |-> parseFloat(tokens[i])]))
           ELSE ret[1].type = "throw" /\ ret[1].msg = DimensionsUnavailable

---------------------------------------------------------------------------
(* Two conversions that differ in the quality option only.  Each is a call of
   convert on a converter of its own; the second is given the request of the
   first with another quality, the same file, and the same replies from the
   file system and the browser. *)

\* the quality values that pass validateOptions, of those sampled
TwinQualities == {Undefined, Zero, Num(50, 1), Hundred}

\* the first conversion: convert(options) on a new SVGConverter
TwinCallFirst ==
    /\ pc = "idle"
    /\ calls = 0
    /\ \E o \in Options, f \in Inputs :
          /\ req' = Request(f.path, o)
          /\ env' = f.file
    /\ calls' = 1
    /\ caller' = "convert"
    /\ loc' = NoLocals
    /\ written' = FALSE
    /\ outcome' = <<>>
    /\ log' = <<>>
    /\ pc' = "validateInput"
    /\ UNCHANGED <<arg, ret, prev, page, browserVars>>

\* the first conversion is over: its request, file, calls and outcome are kept
TwinKeep ==
    /\ pc = "done"
    /\ calls = 1
    /\ prev' = <<[req |-> req, env |-> env, log |-> log, outcome |-> outcome]>>
    /\ pc' = "idle"
    /\ caller' = "none"
    /\ req' = NoRequest
    /\ env' = NoFile
    /\ loc' = NoLocals
    /\ page' = FALSE
    /\ written' = FALSE
    /\ outcome' = <<>>
    /\ log' = <<>>
    /\ UNCHANGED <<arg, ret, calls, browserVars>>

\* the second conversion: convert on another new SVGConverter, with the
\* options of the first but for the quality, both qualities valid
TwinCallSecond ==
    /\ pc = "idle"
    /\ calls = 1
    /\ prev # <<>>
    /\ prev[1].req.quality \in TwinQualities
    /\ \E q \in TwinQualities \ {prev[1].req.quality} :
          req' = [prev[1].req EXCEPT !.quality = q]
    /\ env' = prev[1].env
    /\ calls' = 2
    /\ caller' = "convert"
    /\ loc' = NoLocals
    /\ written' = FALSE
    /\ outcome' = <<>>
    /\ log' = <<>>
    /\ browser' = 0
    /\ connected' = FALSE
    /\ launched' = 0
    /\ closeAsked' = {}
    /\ pc' = "validateInput"
    /\ UNCHANGED <<arg, ret, prev, page>>

\* what the environment answered to a call: the reply, and for the measurement
\* the size the page reported
ReplyOf(e) == <<e.resp, IF e.op = "measure" THEN e.size ELSE NoSize>>

\* the call itself: the operation and its arguments
CallOf(e) ==
    [op |-> e.op, path |-> e.path, flag |-> e.flag, type |-> e.type,
     size |-> IF e.op = "measure" THEN NoSize ELSE e.size]

\* the second conversion has been answered as the first was, call by call
SameReplies ==
    calls = 2
    => \A i \in 1..Len(log) :
          i <= Len(prev[1].log) => ReplyOf(log[i]) = ReplyOf(prev[1].log[i])

\* a step of a conversion; the second conversion gets the replies of the first
TwinStep ==
    /\ \/ ValidateInput
       \/ ValidateOptions
       \/ GenerateOutputPath
       \/ ParseDimensions
       \/ GetBrowser("fb_getBrowser", "fb_newPage")
       \/ NewPage("fb_newPage", "fb_measure")
       \/ MeasureInBrowser
       \/ ClosePage("fb_close", "calculate")
       \/ Calculate
       \/ NormalizeBackground
       \/ GetBrowser("cv_getBrowser", "cv_newPage")
       \/ NewPage("cv_newPage", "cv_render")
       \/ Render
       \/ WriteFile
       \/ ClosePage("cv_close", "return")
       \/ ReturnSuccess
       \/ CatchError
       \/ Disconnect
    /\ SameReplies'

TwinNext == TwinCallFirst \/ TwinKeep \/ TwinCallSecond \/ TwinStep

SpecTwin == Init /\ [][TwinNext]_vars

===========================================================================
